---- MODULE Spec2Model ----
(***************************************************************************)
(* Model of the missed-deposit worker runConfirmedNativeTokenExtraWorker   *)
(* (src/confirmed-native-extra.ts, refactored version, lines 270-485).     *)
(*                                                                         *)
(* Representation of JavaScript values:                                    *)
(*   - a decimal string is a sequence of digits, most significant first;   *)
(*     an ethers BigNumber is its canonical decimal digits (no leading     *)
(*     zeros), so BigNumber.from strips leading zeros;                     *)
(*   - an address compared with toLowerCase is a sequence of characters;   *)
(*   - `undefined` is the empty sequence for a BigNumber field and the     *)
(*     sentinel Absent for the `to` field.                                 *)
(***************************************************************************)
EXTENDS Integers, Sequences, FiniteSets, Bags, TLC

VARIABLES
    etherscanApiKey,  \* config.etherscanApiKey is set (line 276)
    wpc,              \* position of the worker / of the running task handler
    taskNo,           \* number of tasks pulled from the queue so far
    orderId,          \* the order id of the task being handled
    order,            \* the order loaded by the handler (line 434)
    calls,            \* external calls the handler of the current task has made
    result,           \* how the current task's handler ended
    txs,              \* the explorer's history of the current task (line 450)
    trimmedTxs,       \* the filtered, capped candidates (line 462)
    scans,            \* pMap mapper invocations (line 468), all tasks
    ledger,           \* unique ids the credit ledger holds a credit for
    stored,           \* bag of "Stored deposit" log records (line 354)
    orig              \* the original version (lines 39-235) handling the same
                      \* task with the same replies: its calls and its end

vars == <<etherscanApiKey, wpc, taskNo, orderId, order, calls, result,
          txs, trimmedTxs, scans, ledger, stored, orig>>

-----------------------------------------------------------------------------
(* Bounds of the model.                                                    *)

MaxTasks == 2       \* tasks the queue delivers in one behaviour
MaxPage == 11       \* length of an explorer history in the filter model

-----------------------------------------------------------------------------
(* Decimal strings and BigNumber.                                          *)

Digit == 0 .. 9

RECURSIVE Reverse(_)
Reverse(s) == IF s = <<>> THEN <<>> ELSE Reverse(Tail(s)) \o <<Head(s)>>

RECURSIVE StripZeros(_)
StripZeros(s) ==
    IF Len(s) > 1 /\ Head(s) = 0 THEN StripZeros(Tail(s)) ELSE s

RECURSIVE Zeros(_)
Zeros(n) == IF n <= 0 THEN <<>> ELSE <<0>> \o Zeros(n - 1)

\* ethers.BigNumber.from(decimal string): the number, canonical digits
BigNumberFrom(s) == StripZeros(s)

\* BigNumber.toString(): the canonical decimal string of the number
BigNumberToString(b) == StripZeros(b)

\* BigNumber.gt(0)
BigNumberGtZero(b) == \E i \in 1 .. Len(b) : b[i] # 0

\* digit-by-digit addition with carry, least significant digit first
RECURSIVE AddLE(_, _, _)
AddLE(a, b, c) ==
    IF a = <<>> /\ b = <<>>
    THEN IF c = 0 THEN <<>> ELSE <<c>>
    ELSE LET x == IF a = <<>> THEN 0 ELSE Head(a)
             y == IF b = <<>> THEN 0 ELSE Head(b)
             s == x + y + c
         IN  <<s % 10>> \o AddLE(IF a = <<>> THEN <<>> ELSE Tail(a),
                                 IF b = <<>> THEN <<>> ELSE Tail(b),
                                 s \div 10)

\* a decimal string times one digit, least significant digit first
RECURSIVE MulDigitLE(_, _, _)
MulDigitLE(a, d, c) ==
    IF a = <<>>
    THEN IF c = 0 THEN <<>> ELSE <<c>>
    ELSE LET p == Head(a) * d + c
         IN  <<p % 10>> \o MulDigitLE(Tail(a), d, p \div 10)

\* long multiplication, least significant digit first
RECURSIVE TimesLE(_, _)
TimesLE(a, b) ==
    IF b = <<>>
    THEN <<>>
    ELSE AddLE(MulDigitLE(a, Head(b), 0), <<0>> \o TimesLE(a, Tail(b)), 0)

Canonical(le) == IF le = <<>> THEN <<0>> ELSE StripZeros(Reverse(le))

\* ns.sum(a, b): exact decimal sum of two decimal strings
nsSum(a, b) == Canonical(AddLE(Reverse(a), Reverse(b), 0))

\* ns.times(a, b): exact decimal product of two decimal strings
nsTimes(a, b) == Canonical(TimesLE(Reverse(a), Reverse(b)))

RECURSIVE StripTrailingZeros(_)
StripTrailingZeros(s) ==
    IF s # <<>> /\ s[Len(s)] = 0
    THEN StripTrailingZeros(SubSeq(s, 1, Len(s) - 1))
    ELSE s

EtherDecimals == 18

\* ethers.utils.formatEther(wei): "<integer part>.<fraction>", the fraction
\* without trailing zeros but never empty
formatEther(b) ==
    LET c == StripZeros(b)
        p == Zeros(EtherDecimals + 1 - Len(c)) \o c
        int == SubSeq(p, 1, Len(p) - EtherDecimals)
        frac == StripTrailingZeros(SubSeq(p, Len(p) - EtherDecimals + 1, Len(p)))
    IN  [int |-> int, frac |-> IF frac = <<>> THEN <<0>> ELSE frac]

\* the number a short decimal string denotes (used to state properties)
RECURSIVE DecValue(_)
DecValue(s) ==
    IF s = <<>> THEN 0 ELSE DecValue(SubSeq(s, 1, Len(s) - 1)) * 10 + s[Len(s)]

-----------------------------------------------------------------------------
(* Addresses and String.prototype.toLowerCase.                             *)

LowerChar(c) ==
    CASE c = "A" -> "a"
      [] c = "B" -> "b"
      [] c = "C" -> "c"
      [] OTHER -> c

toLowerCase(s) == [i \in DOMAIN s |-> LowerChar(s[i])]

\* `to` is undefined (contract creation)
Absent == <<"undefined">>

\* config.evmAccount (line 276), a checksummed (mixed-case) address
account == <<"A", "b", "C">>

-----------------------------------------------------------------------------
(* Configuration and the collaborators' data.                              *)

\* nativeMethod of the application context (lines 273, 279)
nativeMethod == [asset |-> "ETH", id |-> "M"]

asset == nativeMethod.asset

depositMethodId == nativeMethod.id

\* depositAddress of an order whose address was unassigned
NoAddress == "null"

NoOrder == [id |-> "none", depositMethodId |-> "none", depositAddress |-> NoAddress]

\* rows of the Order table: two orders with an address, one without, one of
\* another deposit method
OrderTable ==
    { [id |-> "o1", depositMethodId |-> "M", depositAddress |-> "a1"],
      [id |-> "o2", depositMethodId |-> "M", depositAddress |-> "a2"],
      [id |-> "o3", depositMethodId |-> "M", depositAddress |-> NoAddress],
      [id |-> "o4", depositMethodId |-> "M2", depositAddress |-> "aX"] }

\* order ids the queue may deliver; "o9" is in no row of the table
TaskIds == {"o1", "o3", "o9"}

\* db.getRepository(Order).findOneBy({ id }): the row or null
findOneBy(id) ==
    IF \E o \in OrderTable : o.id = id
    THEN CHOOSE o \in OrderTable : o.id = id
    ELSE NoOrder

\* fetchOrderForAddress without the deposit_method condition
fetchOrderForAddressAnyMethod(address) ==
    { o \in OrderTable : o.depositAddress = address }

\* the rows fetchOrderForAddress's query matches; getOne() returns one of
\* them, or null when there is none
fetchOrderForAddress(address) ==
    { o \in OrderTable :
        o.depositMethodId = depositMethodId /\ o.depositAddress = address }

\* getEthereumNativeDepositUniqueId(nativeMethod, txid)
getEthereumNativeDepositUniqueId(method, txid) == <<method.id, txid>>

NoUniqueId == <<"none", "none">>

NoAmount == [int |-> <<>>, frac |-> <<>>]

\* a value getTransaction resolves with that is not an object
NonObjectTx ==
    [isObject |-> FALSE, hash |-> "none", hashIsString |-> FALSE,
     blockHashIsString |-> FALSE, from |-> "", to |-> Absent,
     value |-> <<0>>, gasLimit |-> <<0>>, gasPrice |-> <<>>]

NoTx == NonObjectTx

Tx(h, from, to, value, gasLimit, gasPrice, blockHashIsString) ==
    [isObject |-> TRUE, hash |-> h, hashIsString |-> TRUE,
     blockHashIsString |-> blockHashIsString, from |-> from, to |-> to,
     value |-> value, gasLimit |-> gasLimit, gasPrice |-> gasPrice]

\* transaction hashes of the worker model
Hashes == {"hGood", "hGood2", "hZero", "hBad", "hOther", "hNoOrd", "hE2E"}

\* 5000000000000000000 (five ether in wei), 21000 and 1000000000 (one gwei)
FiveEther == <<5>> \o Zeros(18)

GasLimit21000 == <<2, 1, 0, 0, 0>>

OneGwei == <<1>> \o Zeros(9)

\* the chain node's record of each hash
NodeTx(h) ==
    CASE h = "hGood"  -> Tx(h, "a1", <<"a", "B", "c">>, <<5>>, <<3>>, <<4>>, TRUE)
      [] h = "hGood2" -> Tx(h, "a2", account, <<1, 9>>, <<2, 1>>, <<9>>, TRUE)
      [] h = "hZero"  -> Tx(h, "a1", account, <<0>>, <<3>>, <<4>>, TRUE)
      [] h = "hBad"   -> Tx(h, "a1", account, <<5>>, <<3>>, <<4>>, FALSE)
      [] h = "hOther" -> Tx(h, "a1", <<"b", "b", "c">>, <<5>>, <<3>>, <<4>>, TRUE)
      [] h = "hNoOrd" -> Tx(h, "aX", account, <<5>>, <<3>>, <<4>>, TRUE)
      [] h = "hE2E"   -> Tx(h, "a1", account, FiveEther, GasLimit21000, OneGwei, TRUE)

\* the `value` string of the explorer's history entry of each hash
ExplorerValue(h) ==
    CASE h = "hGood"  -> <<0, 5>>
      [] h = "hGood2" -> <<1, 9>>
      [] h = "hZero"  -> <<0, 0>>
      [] h = "hE2E"   -> FiveEther
      [] OTHER        -> <<5>>

\* the explorer's history entry of a hash (the code reads only hash and value)
Entry(h) == [hash |-> h, value |-> ExplorerValue(h)]

\* histories the explorer may return in the worker model, newest first
Histories ==
    { [i \in DOMAIN f |-> Entry(f[i])] :
        f \in { <<>>, <<"hZero">>, <<"hGood">>, <<"hGood2">>, <<"hOther">>,
                 <<"hNoOrd">>, <<"hE2E">>, <<"hZero", "hGood">>, <<"hBad", "hGood">>,
                 <<"hGood", "hGood">> } }

\* transactions scanTxid is applied to in the scanner model
TxShapes ==
    {NonObjectTx} \cup
    [isObject : {TRUE}, hash : {"hS"}, hashIsString : BOOLEAN,
     blockHashIsString : BOOLEAN, from : {"", "a1", "aX"},
     to : {Absent, <<>>, account, <<"a", "b", "c">>, <<"A", "b", "b">>},
     value : {<<0>>, <<9, 9>>}, gasLimit : {<<0>>, <<2, 1>>, <<9, 9>>},
     gasPrice : {<<>>, <<0>>, <<7>>, <<9, 9>>}]

\* histories of the filter model: every sequence of zero and non-zero values
FilterValues == {<<0>>, <<1, 0>>}

FilterHistories ==
    UNION { { [i \in 1 .. n |-> [hash |-> ToString(i), value |-> f[i]]] :
                f \in [1 .. n -> FilterValues] } : n \in 0 .. MaxPage }

-----------------------------------------------------------------------------
(* scanTxid and its parts.                                                 *)

\* validateTx without the test of blockHash
validateTxNoBlockHash(tx) ==
    /\ tx.isObject
    /\ tx.from # ""
    /\ tx.hashIsString

\* validateTx returns (TRUE) or throws (FALSE)
validateTx(tx) ==
    /\ tx.isObject
    /\ tx.from # ""
    /\ tx.hashIsString
    /\ tx.blockHashIsString

\* the test of `to` without toLowerCase
isGasPriceAndToAddressCorrectCaseSensitive(tx) ==
    /\ tx.to # Absent
    /\ tx.to # <<>>
    /\ tx.to = account
    /\ tx.gasPrice # <<>>

isGasPriceAndToAddressCorrect(tx) ==
    /\ tx.to # Absent
    /\ tx.to # <<>>
    /\ toLowerCase(tx.to) = toLowerCase(account)
    /\ tx.gasPrice # <<>>

\* the total with ns.sum in the place of ns.times
totalSumOfThree(tx) ==
    nsSum(BigNumberToString(tx.value),
          nsSum(BigNumberToString(tx.gasLimit), BigNumberToString(tx.gasPrice)))

\* the total without ns.times: value + gasPrice
totalWithoutTimes(tx) ==
    nsSum(BigNumberToString(tx.value), BigNumberToString(tx.gasPrice))

total(tx) ==
    nsSum(BigNumberToString(tx.value),
          nsTimes(BigNumberToString(tx.gasLimit), BigNumberToString(tx.gasPrice)))

valueAsEther(tx) == formatEther(tx.value)

\* the total passed on in wei, without formatEther
totalAsEtherRaw(t) == [int |-> t, frac |-> <<0>>]

totalAsEther(t) == formatEther(t)

\* a unique id that changes with every delivery of the task
creditUniqueIdPerDelivery(s) ==
    getEthereumNativeDepositUniqueId(nativeMethod, ToString(s.task))

\* the uniqueId argument of maybeInternalCreateDeposit
creditUniqueId(s) == getEthereumNativeDepositUniqueId(nativeMethod, s.tx.hash)

\* a mapper invocation of pMap before it starts
NewScan(t, i, h) ==
    [task |-> t, idx |-> i, hash |-> h, pc |-> "pending", tx |-> NoTx,
     total |-> <<>>, order |-> "none", amount |-> NoAmount,
     uniqueId |-> NoUniqueId, calls |-> {}, ret |-> "none",
     result |-> "running", fault |-> "none"]

\* scanTxid from its entry to its first await: validateTx, the `to` and
\* gasPrice test, the total and the call of fetchOrderForAddress
scanTxidEnter(s, tx) ==
    IF ~validateTx(tx)
    THEN [s EXCEPT !.tx = tx, !.pc = "done", !.ret = "throw",
                   !.result = "rejected", !.fault = "validateTx"]
    ELSE IF ~isGasPriceAndToAddressCorrect(tx)
    THEN [s EXCEPT !.tx = tx, !.pc = "done", !.ret = "false", !.result = "resolved"]
    ELSE [s EXCEPT !.tx = tx, !.pc = "fetchOrder", !.total = total(tx),
                   !.calls = @ \cup {"fetchOrderForAddress"}]

\* scanTxid after fetchOrderForAddress resolved with order o
scanTxidOrder(s, o) ==
    IF o = NoOrder
    THEN [s EXCEPT !.pc = "done", !.ret = "false", !.result = "resolved"]
    ELSE [s EXCEPT !.pc = "maybeCredit", !.order = o.id,
                   !.amount = totalAsEther(s.total),
                   !.uniqueId = creditUniqueId(s),
                   !.calls = @ \cup {"maybeInternalCreateDeposit"}]

\* scanTxid after maybeInternalCreateDeposit resolved with wasCredited
scanTxidCredited(s, wasCredited) ==
    [s EXCEPT !.pc = "done", !.result = "resolved",
              !.ret = IF wasCredited THEN "true" ELSE "false"]

\* the record logger.info writes at line 354
storedLog(s) ==
    [txid |-> s.tx.hash, amount |-> valueAsEther(s.tx), asset |-> asset,
     orderId |-> s.order]

\* the call scanTxid awaits (fetchOrderForAddress or
\* maybeInternalCreateDeposit) rejected
scanThrow(s) ==
    [s EXCEPT !.pc = "done", !.ret = "throw", !.result = "rejected",
              !.fault = IF s.pc = "fetchOrder" THEN "fetchOrderForAddress"
                        ELSE "maybeInternalCreateDeposit"]

-----------------------------------------------------------------------------
(* The candidate filter and pMap.                                          *)

\* the end index of slice(0, 10)
SliceEnd == 10

\* txs.filter((tx) => ethers.BigNumber.from(tx.value).gt(0))
filterPositive(h) ==
    SelectSeq(h, LAMBDA tx : BigNumberGtZero(BigNumberFrom(tx.value)))

\* Array.prototype.slice(0, end)
slice(h, end) == SubSeq(h, 1, IF Len(h) < end THEN Len(h) ELSE end)

\* slice(0, 10) before filter
trimmedSliceFirst(h) == filterPositive(slice(h, SliceEnd))

\* trimmedTxs of runScanByOrderId
trimmed(h) == slice(filterPositive(h), SliceEnd)

\* a pMap that never calls its mapper
pMapWidthNone(n) == 0

\* pMap with { concurrency: 1 }
pMapWidthSerial(n) == IF n > 0 THEN 1 ELSE 0

\* how many of n items pMap maps at the same time: the call passes no
\* concurrency option, so all n
pMapWidth(n) == n

\* pMap calls the mapper of an item: getTransaction is requested
launch(s) == [s EXCEPT !.pc = "getTransaction", !.calls = @ \cup {"getTransaction"}]

\* the mapper invocations pMap(trimmedTxs, ...) creates for task t
pMapScans(t, cands) ==
    { IF i <= pMapWidth(Len(cands))
      THEN launch(NewScan(t, i, cands[i].hash))
      ELSE NewScan(t, i, cands[i].hash) : i \in 1 .. Len(cands) }

-----------------------------------------------------------------------------
(* How a task handler ends.                                                *)

Running == [kind |-> "running", exit |-> "none", value |-> "none"]

NoTask == [kind |-> "none", exit |-> "none", value |-> "none"]

Returned(exit, value) == [kind |-> "returned", exit |-> exit, value |-> value]

Raised(exit) == [kind |-> "raised", exit |-> exit, value |-> "error"]

\* the original handler before its first task
OrigIdle == [calls |-> {}, result |-> NoTask]

\* A mapper invocation s of pMap became s2.  A rejected mapper rejects a
\* pending pMap, and with it the handler awaiting it; a resolved mapper makes
\* pMap start the next item not yet started, and resolves pMap, and the
\* handler, when it was the last one.  pMap cancels nothing.
Settle(s, s2) ==
    LET mine == s.task = taskNo /\ wpc = "pMap"
        after == (scans \ {s}) \cup {s2}
        pend == {p \in after : p.task = taskNo /\ p.pc = "pending"}
        nxt == CHOOSE p \in pend : \A q \in pend : p.idx <= q.idx
        started == IF mine /\ s2.result = "resolved" /\ pend # {}
                   THEN (after \ {nxt}) \cup {launch(nxt)}
                   ELSE after
        allDone == \A p \in started : p.task = taskNo => p.result = "resolved"
    IN  /\ scans' = started
        /\ IF mine /\ s2.result = "rejected"
           THEN /\ wpc' = "idle" /\ result' = Raised("scan")
                /\ orig' = [orig EXCEPT !.result = Raised("scan")]
           ELSE IF mine /\ allDone
           THEN /\ wpc' = "idle" /\ result' = Returned("completed", "undefined")
                /\ orig' = [orig EXCEPT !.result = Returned("completed", "undefined")]
           ELSE UNCHANGED <<wpc, result, orig>>

-----------------------------------------------------------------------------
(* The worker.                                                             *)

TypeOK ==
    /\ etherscanApiKey \in BOOLEAN
    /\ taskNo \in 0 .. MaxTasks
    /\ calls \subseteq {"findOneBy", "getEtherScanBlocknumber",
                        "getEtherScanTxListForAddressInDesc", "pMap"}
    /\ ledger \subseteq {getEthereumNativeDepositUniqueId(nativeMethod, h) :
                            h \in Hashes \cup {"hS"}}

Init ==
    /\ etherscanApiKey \in BOOLEAN
    /\ wpc = "start"
    /\ taskNo = 0
    /\ orderId = "none"
    /\ order = NoOrder
    /\ calls = {}
    /\ result = NoTask
    /\ txs = <<>>
    /\ trimmedTxs = <<>>
    /\ scans = {}
    /\ ledger = {}
    /\ stored = EmptyBag
    /\ orig = OrigIdle

\* runScanByOrderId without the test of etherscanApiKey
startsQueueAlways(key) == TRUE

\* runScanByOrderId up to queue.run: without an API key it returns
startsQueue(key) == key

Start ==
    /\ wpc = "start"
    /\ wpc' = IF startsQueue(etherscanApiKey) THEN "idle" ELSE "stopped"
    /\ UNCHANGED <<etherscanApiKey, taskNo, orderId, order, calls, result,
                   txs, trimmedTxs, scans, ledger, stored, orig>>

\* queue.run hands the next order id to the handler, which requests the order
PullTask(id) ==
    /\ wpc = "idle"
    /\ taskNo < MaxTasks
    /\ taskNo' = taskNo + 1
    /\ orderId' = id
    /\ order' = NoOrder
    /\ calls' = {"findOneBy"}
    /\ result' = Running
    /\ orig' = [calls |-> {"findOneBy"}, result |-> Running]
    /\ wpc' = "findOneBy"
    /\ txs' = <<>>
    /\ trimmedTxs' = <<>>
    /\ scans' = {s \in scans : s.pc \notin {"done", "pending"}}
    /\ UNCHANGED <<etherscanApiKey, ledger, stored>>

\* the check without the test of depositAddress
checkIfOrderExists(o) == o # NoOrder

checkIfOrderExistsAndOrderAddressAssigned(o) ==
    /\ o # NoOrder
    /\ o.depositAddress # NoAddress

\* the original handler after findOneBy resolved with o (lines 168-181):
\* it returns when the order is absent or has no deposit address, and
\* requests the block number otherwise
origAfterFindOne(o) ==
    IF o = NoOrder
    THEN [orig EXCEPT !.result = Returned("notFound", "undefined")]
    ELSE IF o.depositAddress = NoAddress
    THEN [orig EXCEPT !.result = Returned("noAddress", "undefined")]
    ELSE [orig EXCEPT !.calls = @ \cup {"getEtherScanBlocknumber"}]

\* findOneBy resolved or rejected (lines 434-444)
FindOneReply ==
    /\ wpc = "findOneBy"
    /\ \E ok \in BOOLEAN :
        IF ~ok
        THEN /\ wpc' = "idle"
             /\ result' = Raised("findOneBy")
             /\ orig' = [orig EXCEPT !.result = Raised("findOneBy")]
             /\ UNCHANGED <<order, calls>>
        ELSE LET o == findOneBy(orderId) IN
             /\ order' = o
             /\ orig' = origAfterFindOne(o)
             /\ IF ~checkIfOrderExistsAndOrderAddressAssigned(o)
                THEN /\ wpc' = "idle"
                     /\ result' = Returned(IF o = NoOrder THEN "notFound"
                                           ELSE "noAddress", "true")
                     /\ UNCHANGED calls
                ELSE /\ wpc' = "getEtherScanBlocknumber"
                     /\ calls' = calls \cup {"getEtherScanBlocknumber"}
                     /\ UNCHANGED result
    /\ UNCHANGED <<etherscanApiKey, taskNo, orderId, txs, trimmedTxs,
                   scans, ledger, stored>>

\* the original handler after its getEtherScanBlocknumber (lines 135-150)
\* returned (lines 183-198): it requests the history (the explorer request
\* is that of the refactored getEtherScanTxListForAddressInDesc), or returns
origAfterBlock(r) ==
    IF r = "block"
    THEN [orig EXCEPT !.calls = @ \cup {"getEtherScanTxListForAddressInDesc"}]
    ELSE [orig EXCEPT !.result =
            Returned(IF r = "none" THEN "noBlock" ELSE "blockFailed", "undefined")]

\* getEtherScanBlocknumber returned a block number, or undefined because the
\* request failed or the response held none (lines 385-448)
BlockReply ==
    /\ wpc = "getEtherScanBlocknumber"
    /\ \E r \in {"block", "none", "error"} :
        /\ orig' = origAfterBlock(r)
        /\ IF r = "block"
           THEN /\ wpc' = "getEtherScanTxListForAddressInDesc"
                /\ calls' = calls \cup {"getEtherScanTxListForAddressInDesc"}
                /\ UNCHANGED result
           ELSE /\ wpc' = "idle"
                /\ result' = Returned(IF r = "none" THEN "noBlock" ELSE "blockFailed",
                                      "undefined")
                /\ UNCHANGED calls
    /\ UNCHANGED <<etherscanApiKey, taskNo, orderId, order, txs,
                   trimmedTxs, scans, ledger, stored>>

\* the original handler after the history call returned h (lines 210-231):
\* the same filter, cap and pMap
origAfterHistory(h) ==
    IF slice(filterPositive(h), SliceEnd) = <<>>
    THEN [calls |-> orig.calls \cup {"pMap"},
          result |-> Returned("completed", "undefined")]
    ELSE [orig EXCEPT !.calls = @ \cup {"pMap"}]

\* the handler after the history call returned h: filter, cap, pMap
scanHistory(h) ==
    LET cands == trimmed(h) IN
    /\ txs' = h
    /\ trimmedTxs' = cands
    /\ calls' = calls \cup {"pMap"}
    /\ scans' = scans \cup pMapScans(taskNo, cands)
    /\ orig' = origAfterHistory(h)
    /\ IF cands = <<>>
       THEN wpc' = "idle" /\ result' = Returned("completed", "undefined")
       ELSE wpc' = "pMap" /\ UNCHANGED result

\* how the original handler ends when the history request or the schema
\* parse failed: its catch logs and returns (lines 193-208)
origTxListFailed == Returned("txListFailed", "undefined")

\* the history call's failure propagating out of the handler
txListFailedRaises == Raised("txListFailed")

\* how the handler ends when the history request or the schema parse failed:
\* getEtherScanTxListForAddressInDesc catches, logs and returns undefined,
\* and the handler returns
txListFailed == Returned("txListFailed", "undefined")

\* getEtherScanTxListForAddressInDesc returned the history, or undefined
\* because the request or the schema parse failed (lines 361-458)
TxListReply ==
    /\ wpc = "getEtherScanTxListForAddressInDesc"
    /\ \/ /\ wpc' = "idle"
          /\ result' = txListFailed
          /\ orig' = [orig EXCEPT !.result = origTxListFailed]
          /\ UNCHANGED <<calls, txs, trimmedTxs, scans>>
       \/ \E h \in Histories : scanHistory(h)
    /\ UNCHANGED <<etherscanApiKey, taskNo, orderId, order, ledger, stored>>

\* the mapper without the test of the node's reply: scanTxid on null
mapperOnNullScans(s) == scanTxidEnter(s, NoTx)

\* the mapper when the node does not know the hash: it logs and returns
mapperOnNull(s) == [s EXCEPT !.pc = "done", !.result = "resolved"]

\* the mapper of s after getTransaction settled with r: the transaction, null
\* or a rejection; with a transaction the mapper calls scanTxid (lines 469-479)
mapperAfter(s, r) ==
    CASE r = "tx" -> scanTxidEnter(s, NodeTx(s.hash))
      [] r = "null" -> mapperOnNull(s)
      [] r = "throw" -> [s EXCEPT !.pc = "done", !.result = "rejected",
                                  !.fault = "getTransaction"]

\* nodeProvider.getTransaction resolved with the transaction or null, or
\* rejected
NodeReply(s) ==
    /\ s.pc = "getTransaction"
    /\ \E r \in {"tx", "null", "throw"} : Settle(s, mapperAfter(s, r))
    /\ UNCHANGED <<etherscanApiKey, taskNo, orderId, order, calls, txs,
                   trimmedTxs, ledger, stored>>

\* fetchOrderForAddress resolved with an order or undefined, or rejected
OrderReply(s) ==
    /\ s.pc = "fetchOrder"
    /\ \/ Settle(s, scanThrow(s))
       \/ \E o \in fetchOrderForAddress(s.tx.from) : Settle(s, scanTxidOrder(s, o))
       \/ /\ fetchOrderForAddress(s.tx.from) = {}
          /\ Settle(s, scanTxidOrder(s, NoOrder))
    /\ UNCHANGED <<etherscanApiKey, taskNo, orderId, order, calls, txs,
                   trimmedTxs, ledger, stored>>

\* maybeInternalCreateDeposit resolved or rejected.  The ledger answers true
\* only when the call newly created the credit of the unique id; it answers
\* false when that credit exists or the order accepts no credit; a call that
\* rejects may or may not have created the credit.
CreditReply(s) ==
    /\ s.pc = "maybeCredit"
    /\ \/ /\ s.uniqueId \notin ledger
          /\ ledger' = ledger \cup {s.uniqueId}
          /\ stored' = stored (+) SetToBag({storedLog(s)})
          /\ Settle(s, scanTxidCredited(s, TRUE))
       \/ /\ UNCHANGED <<ledger, stored>>
          /\ Settle(s, scanTxidCredited(s, FALSE))
       \/ /\ \E created \in BOOLEAN :
               ledger' = IF created THEN ledger \cup {s.uniqueId} ELSE ledger
          /\ UNCHANGED stored
          /\ Settle(s, scanThrow(s))
    /\ UNCHANGED <<etherscanApiKey, taskNo, orderId, order, calls, txs,
                   trimmedTxs>>

Next ==
    \/ Start
    \/ \E id \in TaskIds : PullTask(id)
    \/ FindOneReply
    \/ BlockReply
    \/ TxListReply
    \/ \E s \in scans : NodeReply(s)
    \/ \E s \in scans : OrderReply(s)
    \/ \E s \in scans : CreditReply(s)

Spec == Init /\ [][Next]_vars

\* some mapper invocation awaits the call it made at position p
Awaited(p) == \E s \in scans : s.pc = p

\* The worker when every external call the handler or a mapper awaits
\* eventually settles (resolves or rejects).  For the calls of the mappers
\* weak fairness is written out, with the guard of the reply in the place of
\* ENABLED: a reply is enabled exactly when some mapper awaits it.
SpecLive ==
    /\ Spec
    /\ WF_vars(FindOneReply)
    /\ WF_vars(BlockReply)
    /\ WF_vars(TxListReply)
    /\ \/ []<>(~Awaited("getTransaction"))
       \/ []<><<\E s \in scans : NodeReply(s)>>_vars
    /\ \/ []<>(~Awaited("fetchOrder"))
       \/ []<><<\E s \in scans : OrderReply(s)>>_vars
    /\ \/ []<>(~Awaited("maybeCredit"))
       \/ []<><<\E s \in scans : CreditReply(s)>>_vars

-----------------------------------------------------------------------------
(* The scanner alone: scanTxid applied once to a transaction of any shape, *)
(* with or without an earlier credit of its unique id in the ledger.       *)

InitScan ==
    /\ etherscanApiKey = TRUE
    /\ wpc = "scanTxid"
    /\ taskNo = 0
    /\ orderId = "none"
    /\ order = NoOrder
    /\ calls = {}
    /\ result = NoTask
    /\ txs = <<>>
    /\ trimmedTxs = <<>>
    /\ scans = {[NewScan(0, 1, "hS") EXCEPT !.pc = "scanTxid"]}
    /\ ledger \in {{}, {getEthereumNativeDepositUniqueId(nativeMethod, "hS")}}
    /\ stored = EmptyBag
    /\ orig = OrigIdle

CallScanTxid(s) ==
    /\ s.pc = "scanTxid"
    /\ \E tx \in TxShapes : Settle(s, scanTxidEnter(s, tx))
    /\ UNCHANGED <<etherscanApiKey, taskNo, orderId, order, calls, txs,
                   trimmedTxs, ledger, stored>>

NextScan ==
    \/ \E s \in scans : CallScanTxid(s)
    \/ \E s \in scans : OrderReply(s)
    \/ \E s \in scans : CreditReply(s)

SpecScan == InitScan /\ [][NextScan]_vars

-----------------------------------------------------------------------------
(* The total and the amount of scanTxid alone (lines 327-339), on          *)
(* transactions of full-size values.                                       *)

\* 1000000000000000000 (one ether in wei) and 50000000000 (fifty gwei)
OneEther == <<1>> \o Zeros(18)

FiftyGwei == <<5>> \o Zeros(10)

AmountValues == {<<0>>, <<1>>, <<9, 9>>, OneEther, FiveEther}

AmountGasLimits == {<<0>>, <<9, 9>>, GasLimit21000}

AmountGasPrices == {<<0>>, <<9, 9>>, OneGwei, FiftyGwei}

InitAmount ==
    /\ etherscanApiKey = TRUE
    /\ wpc = "scanTxid"
    /\ taskNo = 0
    /\ orderId = "none"
    /\ order = NoOrder
    /\ calls = {}
    /\ result = NoTask
    /\ txs = <<>>
    /\ trimmedTxs = <<>>
    /\ \E v \in AmountValues, gl \in AmountGasLimits, gp \in AmountGasPrices :
         scans = {[NewScan(0, 1, "hS") EXCEPT
                     !.pc = "total",
                     !.tx = Tx("hS", "a1", account, v, gl, gp, TRUE)]}
    /\ ledger = {}
    /\ stored = EmptyBag
    /\ orig = OrigIdle

\* lines 327-330 and 339: the total and its ether-equivalent amount
ComputeTotal(s) ==
    /\ s.pc = "total"
    /\ scans' = (scans \ {s}) \cup
                   {[s EXCEPT !.pc = "amount", !.total = total(s.tx),
                              !.amount = totalAsEther(total(s.tx))]}
    /\ UNCHANGED <<etherscanApiKey, wpc, taskNo, orderId, order, calls, result,
                   txs, trimmedTxs, ledger, stored, orig>>

NextAmount == \E s \in scans : ComputeTotal(s)

SpecAmount == InitAmount /\ [][NextAmount]_vars

-----------------------------------------------------------------------------
(* The worker on histories of any length, with a chain node that rejects   *)
(* the lookup of a task's first candidate and leaves the other lookups     *)
(* outstanding.                                                            *)

\* histories of 0 .. MaxPage entries, all of a value greater than zero
FanOutHistories ==
    { [i \in 1 .. n |-> [hash |-> ToString(i), value |-> <<1, 0>>]] :
        n \in 0 .. MaxPage }

InitFanOut ==
    /\ etherscanApiKey = TRUE
    /\ wpc = "idle"
    /\ taskNo = 0
    /\ orderId = "none"
    /\ order = NoOrder
    /\ calls = {}
    /\ result = NoTask
    /\ txs = <<>>
    /\ trimmedTxs = <<>>
    /\ scans = {}
    /\ ledger = {}
    /\ stored = EmptyBag
    /\ orig = OrigIdle

\* getEtherScanTxListForAddressInDesc returned the history
TxListFanOut ==
    /\ wpc = "getEtherScanTxListForAddressInDesc"
    /\ \E h \in FanOutHistories : scanHistory(h)
    /\ UNCHANGED <<etherscanApiKey, taskNo, orderId, order, ledger, stored>>

\* nodeProvider.getTransaction of the first candidate rejected
NodeRejectsFirst(s) ==
    /\ s.pc = "getTransaction"
    /\ s.idx = 1
    /\ Settle(s, mapperAfter(s, "throw"))
    /\ UNCHANGED <<etherscanApiKey, taskNo, orderId, order, calls, txs,
                   trimmedTxs, ledger, stored>>

NextFanOut ==
    \/ \E id \in TaskIds : PullTask(id)
    \/ FindOneReply
    \/ BlockReply
    \/ TxListFanOut
    \/ \E s \in scans : NodeRejectsFirst(s)

SpecFanOut == InitFanOut /\ [][NextFanOut]_vars

-----------------------------------------------------------------------------
(* The candidate filter alone, applied to a history of any length.         *)

InitFilter ==
    /\ etherscanApiKey = TRUE
    /\ wpc = "filter"
    /\ taskNo = 0
    /\ orderId = "none"
    /\ order = NoOrder
    /\ calls = {}
    /\ result = NoTask
    /\ txs = <<>>
    /\ trimmedTxs = <<>>
    /\ scans = {}
    /\ ledger = {}
    /\ stored = EmptyBag
    /\ orig = OrigIdle

\* lines 460-468 of the handler applied to the history
ApplyFilter ==
    /\ wpc = "filter"
    /\ \E h \in FilterHistories : scanHistory(h)
    /\ UNCHANGED <<etherscanApiKey, taskNo, orderId, order, ledger, stored>>

NextFilter == ApplyFilter

SpecFilter == InitFilter /\ [][NextFilter]_vars

-----------------------------------------------------------------------------
(* Properties.                                                             *)

\* mapper invocations of the task being handled
TaskScans == {s \in scans : s.task = taskNo}

\* the order id has a row with an assigned deposit address
OrderUsable(id) ==
    \E o \in OrderTable : o.id = id /\ o.depositAddress # NoAddress

CasePair(a, b) == a = b \/ {a, b} \in {{"a", "A"}, {"b", "B"}, {"c", "C"}}

SameIgnoringCase(x, y) ==
    /\ Len(x) = Len(y)
    /\ \A i \in 1 .. Len(x) : CasePair(x[i], y[i])

\* scanTxid was applied to a transaction record that passes the guard
Scanned(s) ==
    /\ s.pc \notin {"pending", "getTransaction", "scanTxid"}
    /\ s.tx.isObject /\ s.tx.hashIsString /\ s.tx.blockHashIsString
    /\ s.tx.from # ""

PaysAccount(tx) ==
    /\ tx.to # Absent
    /\ SameIgnoringCase(tx.to, account)
    /\ tx.gasPrice # <<>>

\* C1: every maybeCredit call carries the unique id of (nativeMethod, the
\* transaction's hash); no transaction has two success records or two scans
\* that returned credited, over all deliveries and interleavings, and every
\* success record is backed by the ledger's credit of that unique id.
C1_AtMostOnceCredit ==
    /\ \A s \in scans :
         "maybeInternalCreateDeposit" \in s.calls =>
             s.uniqueId = getEthereumNativeDepositUniqueId(nativeMethod, s.hash)
    /\ \A r \in BagToSet(stored) :
         /\ CopiesIn(r, stored) = 1
         /\ getEthereumNativeDepositUniqueId(nativeMethod, r.txid) \in ledger
         /\ \A q \in BagToSet(stored) : q.txid = r.txid => q = r
    /\ \A s \in scans :
         s.ret = "true" =>
             /\ \E r \in BagToSet(stored) : r.txid = s.hash
             /\ \A p \in scans : p.ret = "true" /\ p.hash = s.hash => p = s

\* a later delivery's call for an already credited transaction observed false
C1_Witness ==
    \E s \in scans :
        /\ s.task = 2 /\ s.hash = "hGood" /\ s.pc = "done" /\ s.ret = "false"
        /\ "maybeInternalCreateDeposit" \in s.calls
        /\ \E r \in BagToSet(stored) : r.txid = "hGood"

\* C2: the total of every transaction that reaches the credit call is
\* exactly value + gasLimit * gasPrice, as a canonical decimal string.
C2_TotalExact ==
    \A s \in scans :
        "maybeInternalCreateDeposit" \in s.calls =>
            /\ DecValue(s.total) =
                 DecValue(s.tx.value) + DecValue(s.tx.gasLimit) * DecValue(s.tx.gasPrice)
            /\ s.total = StripZeros(s.total)
            /\ s.amount = formatEther(s.total)

\* 99 + 99 * 99 reached the credit call
C2_Witness ==
    \E s \in scans :
        /\ "maybeInternalCreateDeposit" \in s.calls
        /\ s.tx.value = <<9, 9>> /\ s.tx.gasLimit = <<9, 9>> /\ s.tx.gasPrice = <<9, 9>>
        /\ s.total = <<9, 9, 0, 0>>

\* C3: on a structurally valid transaction whose `to` is absent or differs
\* from the account by more than letter case, or whose gasPrice is undefined,
\* scanTxid returns false without raising and without an order lookup or a
\* credit call; a `to` equal to the account up to letter case passes on to
\* the order lookup.
C3_RejectsWrongDestination ==
    \A s \in scans :
        Scanned(s) =>
            IF PaysAccount(s.tx)
            THEN "fetchOrderForAddress" \in s.calls
            ELSE /\ s.pc = "done" /\ s.ret = "false" /\ s.result = "resolved"
                 /\ s.fault = "none"
                 /\ s.calls \cap {"fetchOrderForAddress",
                                  "maybeInternalCreateDeposit"} = {}

\* a valid transaction with gas price, paying another address, was rejected
C3_Witness ==
    \E s \in scans :
        /\ Scanned(s) /\ s.tx.to = <<"A", "b", "b">> /\ s.tx.gasPrice = <<7>>
        /\ s.pc = "done" /\ s.ret = "false"

\* C4: on a well-formed transaction paying the account whose sender is the
\* deposit address of no order of the configured deposit method, scanTxid
\* never calls maybeCredit, and when the lookup answers it returns false
\* without raising.
C4_NoOrderNoCredit ==
    \A s \in scans :
        ( /\ Scanned(s)
          /\ PaysAccount(s.tx)
          /\ ~ \E o \in OrderTable : /\ o.depositMethodId = nativeMethod.id
                                     /\ o.depositAddress = s.tx.from ) =>
            /\ "maybeInternalCreateDeposit" \notin s.calls
            /\ s.fault \in {"none", "fetchOrderForAddress"}
            /\ (s.pc = "done" /\ s.fault = "none") =>
                   (s.ret = "false" /\ s.result = "resolved")

\* the lookup of sender aX, address of an order of another method, found none
C4_Witness ==
    \E s \in scans :
        /\ Scanned(s) /\ PaysAccount(s.tx) /\ s.tx.from = "aX"
        /\ "fetchOrderForAddress" \in s.calls
        /\ s.pc = "done" /\ s.ret = "false"

\* C5: the history source is called only for a found order with an assigned
\* address and after the resolver returned a block; a task whose order is
\* absent or has no address returns having called only the order store, and
\* a task whose resolver failed or returned no block returns without a call
\* of the history source, the chain node or the ledger.
C5_HistoryOnlyAfterOrderAndBlock ==
    /\ "getEtherScanTxListForAddressInDesc" \in calls =>
         /\ OrderUsable(orderId)
         /\ "getEtherScanBlocknumber" \in calls
         /\ result.exit \notin {"noBlock", "blockFailed"}
    /\ (taskNo > 0 /\ ~OrderUsable(orderId)) =>
         /\ calls = {"findOneBy"}
         /\ TaskScans = {}
         /\ (wpc = "idle" /\ result.exit # "findOneBy") => result.kind = "returned"
    /\ result.exit \in {"noBlock", "blockFailed"} =>
         /\ result.kind = "returned"
         /\ wpc = "idle"
         /\ calls = {"findOneBy", "getEtherScanBlocknumber"}
         /\ TaskScans = {}

\* the task of an order without deposit address has returned
C5_Witness ==
    /\ orderId = "o3" /\ wpc = "idle" /\ result.kind = "returned"
    /\ calls = {"findOneBy"}

\* C6: when the history call fails the handler returns without raising, with
\* no chain-node lookup and no credit call of that task, and the consumer is
\* ready to hand the next task id to the handler.
C6_HistoryFailureHandled ==
    result.exit = "txListFailed" =>
        /\ result.kind = "returned"
        /\ wpc = "idle"
        /\ "pMap" \notin calls
        /\ TaskScans = {}
        /\ taskNo < MaxTasks => \A id \in TaskIds : ENABLED PullTask(id)

\* the first task ended with a failed history call
C6_Witness ==
    /\ result.exit = "txListFailed" /\ taskNo = 1 /\ wpc = "idle"
    /\ "getEtherScanTxListForAddressInDesc" \in calls

\* C7: a fault raised while scanning one transaction of a task fails that
\* transaction only: the task does not fail with it, and every sibling
\* candidate has been handed to its mapper.
C7_FaultIsLocal ==
    \A s \in TaskScans :
        s.result = "rejected" =>
            /\ result.kind # "raised"
            /\ \A p \in TaskScans : p.pc # "pending"

\* C8: no failure of a task escapes the handler to the consumer loop.
C8_NoFailureEscapes == result.kind # "raised"

\* C9: without an explorer API key the worker pulls no task and makes no
\* order-store, explorer, chain-node or ledger call.
C9_NoKeyNoConsumer ==
    ~etherscanApiKey =>
        /\ wpc \in {"start", "stopped"}
        /\ taskNo = 0
        /\ calls = {}
        /\ scans = {}
        /\ ledger = {}
        /\ stored = EmptyBag

\* the worker returned before queue.run
C9_Witness == ~etherscanApiKey /\ wpc = "stopped"

\* positions of the history entries with value > 0
Positive(h) == {i \in 1 .. Len(h) : DecValue(h[i].value) > 0}

\* the position of the j-th entry with value > 0
NthPositive(h, j) ==
    CHOOSE i \in Positive(h) : Cardinality({m \in Positive(h) : m <= i}) = j

\* C10: the candidates are the first min(10, k) of the k history entries with
\* value > 0, in their order; exactly these are handed to the mappers; an
\* empty or all-zero history gives no candidate and the handler returns.
C10_CandidatesFirstTen ==
    wpc # "filter" =>
        LET k == Cardinality(Positive(txs))
            n == IF k < 10 THEN k ELSE 10
        IN  /\ Len(trimmedTxs) = n
            /\ \A j \in 1 .. n : trimmedTxs[j] = txs[NthPositive(txs, j)]
            /\ {s.idx : s \in scans} = 1 .. n
            /\ Cardinality(scans) = n
            /\ \A s \in scans : s.hash = trimmedTxs[s.idx].hash
            /\ result.kind # "raised"
            /\ k = 0 => (scans = {} /\ result.kind = "returned")

\* a history of eleven entries with value > 0 after a zero one was capped
C10_Witness ==
    /\ wpc # "filter"
    /\ Len(txs) = 11
    /\ Positive(txs) = 2 .. 11
    /\ Len(trimmedTxs) = 10
    /\ trimmedTxs[10] = txs[11]

\* The end-to-end scenario: order o1 (method M, address a1), the history
\* [hE2E], the node's hE2E from a1 to the account with value 5 ether,
\* gasLimit 21000, gasPrice 1 gwei.  With the node knowing the hash and no
\* call failing, the one scan of the task calls maybeCredit, with the amount
\* "5.<frac>" and the unique id of (M, hE2E), for order o1, and the task
\* completes.
EndToEnd(frac) ==
    \A s \in scans :
        s.hash = "hE2E" =>
            /\ "maybeInternalCreateDeposit" \in s.calls =>
                 /\ s.amount = [int |-> <<5>>, frac |-> frac]
                 /\ s.uniqueId = <<"M", "hE2E">>
                 /\ s.order = "o1"
            /\ (s.pc = "done" /\ s.fault = "none" /\ s.tx # NoTx) =>
                 "maybeInternalCreateDeposit" \in s.calls
            /\ (s.task = taskNo /\ s.pc = "done" /\ s.result = "resolved") =>
                 /\ Cardinality(TaskScans) = 1
                 /\ result = Returned("completed", "undefined")

\* C11 as stated: the amount of the end-to-end scenario is 5.000000021
C11_EndToEndAsStated == EndToEnd(<<0, 0, 0, 0, 0, 0, 0, 2, 1>>)

\* C11 amended: the amount of the end-to-end scenario is 5.000021, that is
\* (5000000000000000000 + 21000 * 1000000000) / 10^18; one maybeCredit call
\* with the unique id of (M, hE2E), and the task completes.
C11_EndToEnd == EndToEnd(<<0, 0, 0, 0, 2, 1>>)

\* the scenario's task for o1 credited hE2E and completed
C11_Witness ==
    /\ orderId = "o1" /\ result = Returned("completed", "undefined")
    /\ \E s \in TaskScans :
         /\ s.hash = "hE2E" /\ s.ret = "true" /\ s.order = "o1"
         /\ s.total = <<5, 0, 0, 0, 0, 2, 1>> \o Zeros(12)

\* The AmountReconciler example: the total computed for value
\* 1000000000000000000, gasLimit 21000 and gasPrice 50000000000 is `t`.
ReconcilerExample(t) ==
    \A s \in scans :
        (/\ s.pc = "amount"
         /\ s.tx.value = OneEther
         /\ s.tx.gasLimit = GasLimit21000
         /\ s.tx.gasPrice = FiftyGwei) => s.total = t

\* C12 as stated: the total of the example is 2050000000000000000
C12_ExampleAsStated == ReconcilerExample(<<2, 0, 5>> \o Zeros(16))

\* C12 amended: the total of the example is 1001050000000000000 (value plus
\* 21000 * 50000000000 = 1050000000000000), its amount is 1.00105, and on
\* two-digit operands the total is value + gasLimit * gasPrice as integers.
C12_Example ==
    /\ ReconcilerExample(<<1, 0, 0, 1, 0, 5>> \o Zeros(13))
    /\ \A s \in scans :
         s.pc = "amount" =>
            /\ (/\ s.tx.value = OneEther
                /\ s.tx.gasLimit = GasLimit21000
                /\ s.tx.gasPrice = FiftyGwei) =>
                  s.amount = [int |-> <<1>>, frac |-> <<0, 0, 1, 0, 5>>]
            /\ (/\ Len(s.tx.value) <= 2
                /\ Len(s.tx.gasLimit) <= 2
                /\ Len(s.tx.gasPrice) <= 2) =>
                  DecValue(s.total) =
                    DecValue(s.tx.value)
                      + DecValue(s.tx.gasLimit) * DecValue(s.tx.gasPrice)

\* the example's total has been computed
C12_Witness ==
    \E s \in scans :
        /\ s.pc = "amount"
        /\ s.tx.value = OneEther
        /\ s.tx.gasLimit = GasLimit21000
        /\ s.tx.gasPrice = FiftyGwei
        /\ Len(s.total) = 19

\* the node did not know the hash of mapper invocation s
UnknownToNode(s) == s.pc = "done" /\ s.tx = NoTx /\ s.fault # "getTransaction"

\* C13: a candidate whose hash the node does not know is skipped: its mapper
\* resolves without validation, total, order lookup or credit call and
\* without a fault; every other candidate of the task has its lookup
\* started; a task that raises has another, faulted candidate, and the task
\* completes once every candidate has resolved.
C13_UnknownHashSkipped ==
    \A s \in scans :
        UnknownToNode(s) =>
            /\ s.result = "resolved" /\ s.fault = "none" /\ s.ret = "none"
            /\ s.calls = {"getTransaction"}
            /\ s.total = <<>> /\ s.order = "none" /\ s.uniqueId = NoUniqueId
            /\ s.task = taskNo =>
                 /\ \A i \in 1 .. Len(trimmedTxs) :
                      \E p \in TaskScans :
                          p.idx = i /\ "getTransaction" \in p.calls
                 /\ result.kind = "raised" =>
                      \E p \in TaskScans \ {s} : p.result = "rejected"
                 /\ (\A p \in TaskScans : p.result = "resolved") =>
                      result = Returned("completed", "undefined")

\* of two candidates one was unknown to the node and skipped, the other was
\* credited, and the task completed
C13_Witness ==
    /\ result = Returned("completed", "undefined")
    /\ \E s, p \in TaskScans :
         /\ UnknownToNode(s) /\ s.result = "resolved"
         /\ p.idx # s.idx /\ p.ret = "true"

\* C14: whenever maybeCredit returned true for a transaction, a success
\* record of it holds its transaction id, the asset, the order id and the
\* amount that was passed to maybeCredit.
C14_LogRecordsCreditedAmount ==
    \A s \in scans :
        s.ret = "true" =>
            \E rec \in BagToSet(stored) :
                /\ rec.txid = s.tx.hash
                /\ rec.asset = asset
                /\ rec.orderId = s.order
                /\ rec.amount = s.amount

\* mapper invocations whose node lookup or scan is in flight
InFlight == {s \in scans : s.pc \notin {"pending", "done"}}

\* C15: in every reachable state the number of node lookups and scans in
\* flight at the same time is at most 10, for any length of the history.
C15_BoundedFanOut == Cardinality(InFlight) <= SliceEnd

\* C16: when the handler of a task has returned or raised, no node lookup or
\* scan of that task's candidates is in flight, and none of an earlier task
\* is in flight while the next task runs.
C16_JoinBeforeDone ==
    /\ (wpc = "idle" /\ result.kind \in {"returned", "raised"}) =>
          \A s \in TaskScans : s \notin InFlight
    /\ \A s \in InFlight : s.task = taskNo

\* the record is not an object, has an absent or empty `from`, a non-string
\* transaction id or a non-string block hash
Malformed(tx) ==
    \/ ~tx.isObject
    \/ tx.from = ""
    \/ ~tx.hashIsString
    \/ ~tx.blockHashIsString

\* C17: scanTxid applied to a malformed record fails in the structural guard:
\* it raises before the total (and the amount) is computed and makes no order
\* lookup and no maybeCredit call.
C17_GuardRunsFirst ==
    \A s \in scans :
        (s.pc # "scanTxid" /\ Malformed(s.tx)) =>
            /\ s.pc = "done" /\ s.result = "rejected"
            /\ s.ret = "throw" /\ s.fault = "validateTx"
            /\ s.total = <<>> /\ s.amount = NoAmount
            /\ s.order = "none" /\ s.uniqueId = NoUniqueId
            /\ s.calls = {}

\* a record paying the account from a deposit address, with a transaction id
\* but a block hash that is not a string, was refused by the guard
C17_Witness ==
    \E s \in scans :
        /\ s.pc = "done" /\ s.fault = "validateTx"
        /\ s.tx.isObject /\ s.tx.from = "a1" /\ s.tx.hashIsString
        /\ ~s.tx.blockHashIsString
        /\ s.tx.to = account /\ s.tx.gasPrice = <<7>>

\* the handler's explorer queries
ExplorerQueries ==
    {"getEtherScanBlocknumber", "getEtherScanTxListForAddressInDesc"}

\* the calls of the current task stay within one lookup per candidate, ten
\* candidates, and one credit call per candidate
TaskWithinBounds ==
    /\ Len(trimmedTxs) <= SliceEnd
    /\ Cardinality(TaskScans) = Len(trimmedTxs)
    /\ \A s, p \in TaskScans : s.idx = p.idx => s = p
    /\ Cardinality({s \in TaskScans : "getTransaction" \in s.calls}) <= SliceEnd
    /\ Cardinality({s \in TaskScans :
                      "maybeInternalCreateDeposit" \in s.calls}) <= SliceEnd

\* a finished task none of whose calls failed and that credited nothing
\* returned to the queue
NoCreditIsNormal ==
    (/\ wpc = "idle" /\ result.kind \in {"returned", "raised"}
     /\ \A s \in TaskScans : s.result = "resolved" /\ s.ret # "true"
     /\ result.exit # "findOneBy") => result.kind = "returned"

TaskCredits == {s \in TaskScans : "maybeInternalCreateDeposit" \in s.calls}

\* C19 as stated: every credit requested while the task for order id O runs
\* is requested for order O.
C19_CreditedOrderIsTaskOrder == \A s \in TaskCredits : s.order = orderId

\* C19 amended: every credit is requested for an order of the configured
\* deposit method whose deposit address is the transaction's `from`; it is
\* the task's order when `from` is the deposit address of the task's order
\* and that order is of the configured method (the table holds one order per
\* method and address).
C19_CreditedOrderBySender ==
    \A s \in TaskCredits :
        /\ \E o \in OrderTable :
             /\ o.id = s.order
             /\ o.depositMethodId = nativeMethod.id
             /\ o.depositAddress = s.tx.from
        /\ (/\ order.depositAddress = s.tx.from
            /\ order.depositMethodId = nativeMethod.id) => s.order = orderId

\* the task for o1 credited o2: the history held a transaction sent from a2
C19_Witness ==
    \E s \in TaskCredits :
        orderId = "o1" /\ s.tx.from = "a2" /\ s.order = "o2" /\ s.ret = "true"

\* C20: the original and the refactored version, handling the same task with
\* the same replies of their collaborators, have made the same external
\* calls and end the task with the same outcome: the same value returned or
\* the same fault raised to the queue.
C20_VersionsEquivalent ==
    /\ orig.calls = calls
    /\ orig.result = result

====
